---- MODULE Spec2Model ----
(***************************************************************************)
(* TuneLite: the training/evaluation loop of ColossalaiTrainer             *)
(* (tunelite/trainer/colossalai_trainer.py) and the top-level exception    *)
(* handler of examples/train_colossalai.py.                                *)
(*                                                                         *)
(* Every pipeline rank runs the same program.  A rank's position in it is  *)
(* pc[r]; the collective calls (execute_schedule, torch.distributed        *)
(* .broadcast) are the only places where ranks wait for each other.        *)
(***************************************************************************)
EXTENDS Integers, Sequences, FiniteSets, TLC

\* ---- bounds -------------------------------------------------------------
MaxEpochs    == 2   \* largest trainer_args.epochs; cap of the endless loop
MaxPer       == 2   \* largest eval_per_steps / eval_per_epoches
NTrain       == 2   \* batches in the training dataloader
NEval        == 1   \* batches in the evaluation dataloader
MaxEvalLen   == 1   \* largest trainer_args.eval_max_length
MaxLength    == 2   \* largest max_length of a direct call of generate()
MaxWidth     == 2   \* largest initial width of input_ids
MaxWorld     == 2   \* largest pipeline world size
MaxProcs     == 3   \* largest WORLD_SIZE of a torchrun launch

\* ---- data ---------------------------------------------------------------
Tokens       == {0, 1, 2}       \* 0 is the padding id, 2 the default stop token
Rows         == {1, 2}          \* rows of a batch
None         == "None"          \* os.environ.get of an unset variable

VARIABLES
  world,        \* gpc.get_world_size(ParallelMode.PIPELINE)
  trainer_args, \* the TrainerArgs record
  pc,           \* pc[r]: position of rank r
  epoch,        \* epoch[r]: the loop variable of train()
  step,         \* step[r]: the loop variable of train_loop()
  eval_step,    \* eval_step[r]: the loop variable of eval()
  evalArgs,     \* evalArgs[r]: the (epoch, step) of the running eval()
  ret,          \* ret[r]: where the running eval() returns to
  training,     \* training[r]: engine mode, TRUE after engine.train()
  genRet,       \* genRet[r]: where the running generate() returns to
  max_length,   \* generate(): parameter
  stop_tokens,  \* generate(): parameter
  it,           \* generate(): values of range(max_length) consumed so far
  current_pos,  \* generate(): local
  input_ids,    \* generate(): batch[0]["input_ids"], a row -> sequence
  next_tokens,  \* generate(): local, a row -> token
  chan,         \* chan[r]: broadcast payloads sent to r and not yet received
  passes,       \* history: epoch indices handed to train_loop, in order
  trained,      \* history: training steps executed
  stepsDone,    \* history: steps of the current pass whose cadence check ran
  stepEvals,    \* history: step-level eval() calls of the current pass
  epochsDone,   \* history: epochs whose epoch-level cadence check ran
  epochEvals,   \* history: epoch-level eval() calls
  fwd,          \* execute_schedule calls rank r completed in its generate()
  stopIters,    \* history: iterations whose next_tokens held a stop token
  held,         \* history: next_tokens held after each broadcast
  argmaxLog,    \* history: argmax computed on the last stage, per iteration
  ids0,         \* history: input_ids at the call of generate()
  environ,      \* environ[p]: RANK and WORLD_SIZE of process p
  mpc,          \* mpc[p]: position of process p in the __main__ guard
  traced        \* traced[p]: console.print_exception ran in process p

trainVars == <<epoch, step, eval_step, evalArgs, ret>>
genVars   == <<genRet, max_length, stop_tokens, it, current_pos, input_ids,
               next_tokens, chan>>
trainHist == <<passes, trained, stepsDone, stepEvals, epochsDone, epochEvals>>
genHist   == <<fwd, stopIters, held, argmaxLog, ids0>>
mainVars  == <<environ, mpc, traced>>
vars      == <<world, trainer_args, pc, training, trainVars, genVars,
               trainHist, genHist, mainVars>>

Ranks == 0 .. (world - 1)

\* ---- pure helpers of generate() -----------------------------------------
\* gpc.is_pipeline_last_stage()
IsLastStage(r, w) == r = w - 1

\* src of torch.distributed.broadcast
BroadcastSrc(w) == w - 1

\* a range that yields one value too many
RangeLen_OneMore(n) == IF n >= 0 THEN n + 1 ELSE 0

\* len(range(n))
RangeLen(n) == IF n > 0 THEN n ELSE 0

\* batch[0]["input_ids"].shape[1]
Width(ids) == Len(ids[CHOOSE b \in Rows : TRUE])

\* torch.zeros(shape[0], 1, dtype=torch.long)
Zeros == [b \in Rows |-> 0]

\* torch.cat([input_ids, torch.zeros_like(next_tokens)], dim=1)
CatZeros(ids) == [b \in Rows |-> Append(ids[b], 0)]

\* while current_pos >= input_ids.shape[1]: input_ids = cat(...)
RECURSIVE PadTo(_, _)
PadTo(ids, pos) ==
  IF pos >= Width(ids) THEN PadTo(CatZeros(ids), pos) ELSE ids

\* an unmasked write of the column
WriteColumn_Unmasked(ids, pos, next) ==
  [b \in Rows |-> [ids[b] EXCEPT ![pos + 1] = next[b]]]

\* input_ids[:, pos] = torch.where(input_ids[:, pos] == 0, next[:, 0], input_ids[:, pos])
\* (column pos of the tensor is element pos + 1 of the row's sequence)
WriteColumn(ids, pos, next) ==
  [b \in Rows |-> [ids[b] EXCEPT ![pos + 1] = IF @ = 0 THEN next[b] ELSE @]]

\* for i in torch.flatten(next_tokens).tolist(): if i in stop_tokens: raise StopIteration
HasStop(next, stops) == \E b \in Rows : next[b] \in stops

\* a broadcast that delivers nothing: every rank keeps its local tensor
Broadcast_Local(isSrc, local, wire) == local

\* what a rank holds in next_tokens when torch.distributed.broadcast returns
Broadcast(isSrc, local, wire) == IF isSrc THEN local ELSE wire

\* ---- generate() ---------------------------------------------------------
\* the parameters, locals and history of rank r's generate() frame; at the call
\* generate(batch, max_length=m, stop_tokens=s) nothing has run yet
GenFrame(r, batch, m, s, back) ==
  /\ genRet'      = [genRet EXCEPT ![r] = back]
  /\ max_length'  = [max_length EXCEPT ![r] = m]
  /\ stop_tokens' = [stop_tokens EXCEPT ![r] = s]
  /\ it'          = [it EXCEPT ![r] = 0]
  /\ current_pos' = [current_pos EXCEPT ![r] = 0]
  /\ input_ids'   = [input_ids EXCEPT ![r] = batch]
  /\ next_tokens' = [next_tokens EXCEPT ![r] = Zeros]
  /\ fwd'         = [fwd EXCEPT ![r] = 0]
  /\ stopIters'   = [stopIters EXCEPT ![r] = {}]
  /\ held'        = [held EXCEPT ![r] = <<>>]
  /\ argmaxLog'   = [argmaxLog EXCEPT ![r] = <<>>]
  /\ ids0'        = [ids0 EXCEPT ![r] = batch]

\* for current_pos in tqb:  (tqb wraps range(max_length))
GenHead(r) ==
  /\ pc[r] = "gen_head"
  /\ IF it[r] < RangeLen(max_length[r])
       THEN /\ current_pos' = [current_pos EXCEPT ![r] = it[r]]
            /\ it' = [it EXCEPT ![r] = it[r] + 1]
            /\ pc' = [pc EXCEPT ![r] = "gen_exec"]
       ELSE /\ pc' = [pc EXCEPT ![r] = "gen_return"]
            /\ UNCHANGED <<current_pos, it>>
  /\ UNCHANGED <<world, trainer_args, training, trainVars, trainHist, genHist,
                 mainVars, genRet, max_length, stop_tokens, input_ids,
                 next_tokens, chan>>

\* engine.eval(); execute_schedule(forward_only=True); current_pos += 1;
\* next_tokens = zeros, replaced by the argmax on the last pipeline stage.
\* A stage gets its input from the stages before it, so its forward pass
\* completes only after theirs.
GenExec(r) ==
  /\ pc[r] = "gen_exec"
  /\ \A q \in Ranks : q < r => fwd[q] > fwd[r]
  /\ training' = [training EXCEPT ![r] = FALSE]
  /\ fwd' = [fwd EXCEPT ![r] = fwd[r] + 1]
  /\ current_pos' = [current_pos EXCEPT ![r] = current_pos[r] + 1]
  /\ \E pred \in [Rows -> Tokens] :
       IF IsLastStage(r, world)
         THEN /\ next_tokens' = [next_tokens EXCEPT ![r] = pred]
              /\ argmaxLog' = [argmaxLog EXCEPT ![r] = Append(argmaxLog[r], pred)]
         ELSE /\ next_tokens' = [next_tokens EXCEPT ![r] = Zeros]
              /\ UNCHANGED argmaxLog
  /\ pc' = [pc EXCEPT ![r] = "gen_bcast"]
  /\ UNCHANGED <<world, trainer_args, trainVars, trainHist, mainVars, genRet,
                 max_length, stop_tokens, it, input_ids, chan, stopIters, held,
                 ids0>>

\* torch.distributed.broadcast(next_tokens, src=...) and the rest of the loop
\* body: padding, the masked write, the stop-token test.
GenBroadcast(r) ==
  /\ pc[r] = "gen_bcast"
  /\ LET isSrc == r = BroadcastSrc(world) IN
     /\ isSrc \/ chan[r] # <<>>
     /\ LET wire  == IF isSrc THEN next_tokens[r] ELSE Head(chan[r])
            nt    == Broadcast(isSrc, next_tokens[r], wire)
            ids   == WriteColumn(PadTo(input_ids[r], current_pos[r]),
                                 current_pos[r], nt)
            stop  == HasStop(nt, stop_tokens[r])
        IN /\ chan' = IF isSrc
                        THEN [q \in Ranks |->
                                IF q = r THEN chan[q]
                                         ELSE Append(chan[q], next_tokens[r])]
                        ELSE [chan EXCEPT ![r] = Tail(chan[r])]
           /\ next_tokens' = [next_tokens EXCEPT ![r] = nt]
           /\ input_ids' = [input_ids EXCEPT ![r] = ids]
           /\ held' = [held EXCEPT ![r] = Append(held[r], nt)]
           /\ stopIters' = [stopIters EXCEPT ![r] =
                              IF \E b \in Rows : nt[b] \in stop_tokens[r]
                                THEN stopIters[r] \cup {fwd[r]}
                                      ELSE stopIters[r]]
           /\ pc' = [pc EXCEPT ![r] = IF stop THEN "gen_return" ELSE "gen_head"]
  /\ UNCHANGED <<world, trainer_args, training, trainVars, trainHist, mainVars,
                 genRet, max_length, stop_tokens, it, current_pos, fwd,
                 argmaxLog, ids0>>

\* return batch.  Back in eval() the batch goes to compute_metrics and the
\* locals of the call are dropped; a direct caller keeps the returned batch.
GenReturn(r) ==
  /\ pc[r] = "gen_return"
  /\ pc' = [pc EXCEPT ![r] = genRet[r]]
  /\ IF genRet[r] = "eval_head"
       THEN GenFrame(r, <<>>, 0, {}, "gen_done")
       ELSE UNCHANGED <<genRet, max_length, stop_tokens, it, current_pos,
                        input_ids, next_tokens, genHist>>
  /\ UNCHANGED <<world, trainer_args, training, trainVars, trainHist, mainVars,
                 chan>>


\* ---- eval() -------------------------------------------------------------
\* the evaluation dataloader of examples/train_colossalai.py: every row is the
\* same prompt, a bos token followed by padding
EvalData == [i \in 1 .. NEval |-> [b \in Rows |-> <<1, 0>>]]

\* the state of rank r at the call self.eval(e, s)
CallEval(r, e, s, back) ==
  /\ evalArgs'  = [evalArgs EXCEPT ![r] = <<e, s>>]
  /\ ret'       = [ret EXCEPT ![r] = back]
  /\ eval_step' = [eval_step EXCEPT ![r] = 0]
  /\ pc'        = [pc EXCEPT ![r] = "eval_head"]

\* for eval_step, batch in enumerate(tqb, start=1): generate(batch, ...)
\* and, when the dataloader is exhausted, the return of eval()
EvalHead(r) ==
  /\ pc[r] = "eval_head"
  /\ IF eval_step[r] < NEval
       THEN /\ eval_step' = [eval_step EXCEPT ![r] = eval_step[r] + 1]
            /\ GenFrame(r, EvalData[eval_step[r] + 1],
                        trainer_args.eval_max_length,
                        trainer_args.eval_stop_tokens, "eval_head")
            /\ pc' = [pc EXCEPT ![r] = "gen_head"]
       ELSE /\ pc' = [pc EXCEPT ![r] = ret[r]]
            /\ UNCHANGED <<eval_step, genRet, max_length, stop_tokens, it,
                           current_pos, input_ids, next_tokens, genHist>>
  /\ UNCHANGED <<world, trainer_args, training, epoch, step, evalArgs, ret,
                 chan, trainHist, mainVars>>

\* ---- train() ------------------------------------------------------------
\* a cadence that counts the steps from 0
StepEvalDue_FromZero(n, s) ==
  IF n = 0 THEN FALSE
  ELSE IF n = -1 THEN TRUE
  ELSE n > 0 /\ (s - 1) % n = 0

\* lines 92-97: is eval(epoch, step) due after training step s
StepEvalDue(n, s) ==
  IF n = 0 THEN FALSE
  ELSE IF n = -1 THEN TRUE
  ELSE n > 0 /\ s % n = 0

\* lines 105-110 (epochs == -1): e is the epoch counter after epoch = epoch + 1
EpochEvalDueForever(n, e) ==
  IF n = 0 THEN FALSE
  ELSE IF n = -1 THEN TRUE
  ELSE n > 0 /\ e % n = 0

\* the counted loop testing the 0-based loop variable itself
EpochEvalDueRange_ZeroBased(n, e) ==
  IF n = 0 THEN FALSE
  ELSE IF n = -1 THEN TRUE
  ELSE n > 0 /\ e % n = 0

\* lines 114-119 (epochs > 0): e is the loop variable of range(epochs)
EpochEvalDueRange(n, e) ==
  IF n = 0 THEN FALSE
  ELSE IF n = -1 THEN TRUE
  ELSE n > 0 /\ (e + 1) % n = 0

\* a dispatch without the endless branch
TrainBranch_NoForever(epochs) ==
  IF epochs = 0 THEN "return"
  ELSE IF epochs > 0 THEN "range"
  ELSE "return"

\* lines 98-111: which branch of train() runs
TrainBranch(epochs) ==
  IF epochs = 0 THEN "return"
  ELSE IF epochs = -1 THEN "forever"
  ELSE IF epochs > 0 THEN "range"
  ELSE "return"

\* self.engine.train() and the dispatch on trainer_args.epochs
TrainEnter(r) ==
  /\ pc[r] = "train"
  /\ training' = [training EXCEPT ![r] = TRUE]
  /\ LET br == TrainBranch(trainer_args.epochs) IN
     /\ pc' = [pc EXCEPT ![r] = IF br = "forever" THEN "forever_head"
                                ELSE IF br = "range" THEN "range_head"
                                ELSE "returned"]
     /\ epoch' = [epoch EXCEPT ![r] = IF br = "forever" THEN 0 ELSE epoch[r]]
  /\ UNCHANGED <<world, trainer_args, step, eval_step, evalArgs, ret, genVars,
                 trainHist, genHist, mainVars>>

\* the call train_loop(epoch): the dataloader is iterated from its start
CallTrainLoop(r, e) ==
  /\ passes'    = [passes EXCEPT ![r] = Append(passes[r], e)]
  /\ step'      = [step EXCEPT ![r] = 0]
  /\ stepsDone' = [stepsDone EXCEPT ![r] = 0]
  /\ stepEvals' = [stepEvals EXCEPT ![r] = 0]
  /\ pc'        = [pc EXCEPT ![r] = "step_head"]

\* while True: train_loop(epoch)   (the counter is capped at MaxEpochs)
ForeverHead(r) ==
  /\ pc[r] = "forever_head"
  /\ epoch[r] < MaxEpochs
  /\ CallTrainLoop(r, epoch[r])
  /\ UNCHANGED <<world, trainer_args, training, epoch, eval_step, evalArgs, ret,
                 genVars, trained, epochsDone, epochEvals, genHist, mainVars>>

\* for epoch in range(self.trainer_args.epochs): train_loop(epoch)
\* (epoch is -1 before the first value; the body never assigns it, so the next
\* value of the range is epoch + 1)
RangeHead(r) ==
  /\ pc[r] = "range_head"
  /\ IF epoch[r] + 1 < trainer_args.epochs
       THEN /\ epoch' = [epoch EXCEPT ![r] = epoch[r] + 1]
            /\ CallTrainLoop(r, epoch[r] + 1)
       ELSE /\ pc' = [pc EXCEPT ![r] = "returned"]
            /\ UNCHANGED <<epoch, step, passes, stepsDone, stepEvals>>
  /\ UNCHANGED <<world, trainer_args, training, eval_step, evalArgs, ret,
                 genVars, trained, epochsDone, epochEvals, genHist, mainVars>>

\* for step, batch in enumerate(tqb, start=1)
StepHead(r) ==
  /\ pc[r] = "step_head"
  /\ IF step[r] < NTrain
       THEN /\ step' = [step EXCEPT ![r] = step[r] + 1]
            /\ pc' = [pc EXCEPT ![r] = "train_step"]
       ELSE /\ pc' = [pc EXCEPT ![r] = "epoch_tail"]
            /\ UNCHANGED step
  /\ UNCHANGED <<world, trainer_args, training, epoch, eval_step, evalArgs, ret,
                 genVars, trainHist, genHist, mainVars>>

\* engine.zero_grad(); execute_schedule(forward_only=False); engine.step()
TrainStep(r) ==
  /\ pc[r] = "train_step"
  /\ trained' = [trained EXCEPT ![r] = trained[r] + 1]
  /\ pc' = [pc EXCEPT ![r] = "step_cadence"]
  /\ UNCHANGED <<world, trainer_args, training, trainVars, genVars, passes,
                 stepsDone, stepEvals, epochsDone, epochEvals, genHist,
                 mainVars>>

\* lines 92-97: the step-level cadence
StepCadence(r) ==
  /\ pc[r] = "step_cadence"
  /\ stepsDone' = [stepsDone EXCEPT ![r] = stepsDone[r] + 1]
  /\ IF StepEvalDue(trainer_args.eval_per_steps, step[r])
       THEN /\ CallEval(r, epoch[r], step[r], "step_head")
            /\ stepEvals' = [stepEvals EXCEPT ![r] = stepEvals[r] + 1]
       ELSE /\ pc' = [pc EXCEPT ![r] = "step_head"]
            /\ UNCHANGED <<evalArgs, ret, eval_step, stepEvals>>
  /\ UNCHANGED <<world, trainer_args, training, epoch, step, genVars, passes,
                 trained, epochsDone, epochEvals, genHist, mainVars>>

\* lines 104-110: epoch = epoch + 1 and the epoch-level cadence of the
\* endless loop
EpochTailForever(r) ==
  /\ pc[r] = "epoch_tail"
  /\ TrainBranch(trainer_args.epochs) = "forever"
  /\ epoch' = [epoch EXCEPT ![r] = epoch[r] + 1]
  /\ epochsDone' = [epochsDone EXCEPT ![r] = epochsDone[r] + 1]
  /\ IF EpochEvalDueForever(trainer_args.eval_per_epoches, epoch[r] + 1)
       THEN /\ CallEval(r, epoch[r] + 1, 0, "forever_head")
            /\ epochEvals' = [epochEvals EXCEPT ![r] = epochEvals[r] + 1]
       ELSE /\ pc' = [pc EXCEPT ![r] = "forever_head"]
            /\ UNCHANGED <<evalArgs, ret, eval_step, epochEvals>>
  /\ UNCHANGED <<world, trainer_args, training, step, genVars, passes, trained,
                 stepsDone, stepEvals, genHist, mainVars>>

\* lines 114-119: the epoch-level cadence of the counted loop
EpochTailRange(r) ==
  /\ pc[r] = "epoch_tail"
  /\ TrainBranch(trainer_args.epochs) = "range"
  /\ epochsDone' = [epochsDone EXCEPT ![r] = epochsDone[r] + 1]
  /\ IF EpochEvalDueRange(trainer_args.eval_per_epoches, epoch[r])
       THEN /\ CallEval(r, epoch[r], 0, "range_head")
            /\ epochEvals' = [epochEvals EXCEPT ![r] = epochEvals[r] + 1]
       ELSE /\ pc' = [pc EXCEPT ![r] = "range_head"]
            /\ UNCHANGED <<evalArgs, ret, eval_step, epochEvals>>
  /\ UNCHANGED <<world, trainer_args, training, epoch, step, genVars, passes,
                 trained, stepsDone, stepEvals, genHist, mainVars>>

\* ---- the __main__ guard of examples/train_colossalai.py -------------------
Procs == DOMAIN mpc

\* f"{n}" of a non-negative int
Format(n) == ToString(n)

\* int(s): the exception it raises, "ok" when s is a decimal
IntError(s) ==
  IF s = None THEN "TypeError"
  ELSE IF \E n \in 0 .. MaxProcs + 1 : Format(n) = s THEN "ok"
  ELSE "ValueError"

\* int(s) of a decimal s
IntOf(s) == CHOOSE n \in 0 .. MaxProcs + 1 : Format(n) = s

\* a handler that tests rank 0 only
HandlerCondition_Rank0(rank, world_size) ==
  IF rank = "0" THEN "trace" ELSE "quiet"

\* line 81: "trace" when the condition holds, "quiet" when it does not, the
\* exception's name when evaluating it raises ("or" does not evaluate its right
\* side when the left side holds)
HandlerCondition(rank, world_size) ==
  IF rank = "0" THEN "trace"
  ELSE IF IntError(world_size) # "ok" THEN IntError(world_size)
  ELSE IF rank = Format(IntOf(world_size) - 1) THEN "trace"
  ELSE "quiet"

\* main() returns
MainReturns(p) ==
  /\ mpc[p] = "main"
  /\ mpc' = [mpc EXCEPT ![p] = "exit_ok"]
  /\ UNCHANGED <<world, trainer_args, pc, training, trainVars, genVars,
                 trainHist, genHist, environ, traced>>

\* main() raises: control enters the bare except
MainRaises(p) ==
  /\ mpc[p] = "main"
  /\ mpc' = [mpc EXCEPT ![p] = "except"]
  /\ UNCHANGED <<world, trainer_args, pc, training, trainVars, genVars,
                 trainHist, genHist, environ, traced>>

\* lines 81-84: the rank test and console.print_exception
Handler(p) ==
  /\ mpc[p] = "except"
  /\ LET c == HandlerCondition(environ[p].RANK, environ[p].WORLD_SIZE) IN
     /\ traced' = [traced EXCEPT ![p] = (c = "trace")]
     /\ mpc' = [mpc EXCEPT ![p] = IF c \in {"trace", "quiet"}
                                    THEN "print_rank" ELSE "exit_exc"]
  /\ UNCHANGED <<world, trainer_args, pc, training, trainVars, genVars,
                 trainHist, genHist, environ>>

\* line 85: print(f"\nExceptions at Rank: ...")
PrintRank(p) ==
  /\ mpc[p] = "print_rank"
  /\ mpc' = [mpc EXCEPT ![p] = "exit_ok"]
  /\ UNCHANGED <<world, trainer_args, pc, training, trainVars, genVars,
                 trainHist, genHist, environ, traced>>

\* ---- initial states -----------------------------------------------------
\* TrainerArgs() with the values a run may set
ArgValues ==
  [epochs           : (-2) .. MaxEpochs,
   eval_per_steps   : (-2) .. MaxPer,
   eval_per_epoches : (-2) .. MaxPer,
   eval_max_length  : (-2) .. MaxEvalLen,
   eval_stop_tokens : {{2}}]

\* input_ids of a batch: 0 is padding, 1 stands for any other token
Batches ==
  UNION {[Rows -> [1 .. w -> {0, 1}]] : w \in 1 .. MaxWidth}

StopSets == {{2}, {0, 2}}

\* no process of the launch has been started
NoProcs ==
  /\ environ = <<>>
  /\ mpc = <<>>
  /\ traced = <<>>

\* the ranks of a pipeline of w stages, each at position at
RanksAt(w, at) ==
  /\ world = w
  /\ pc = [r \in 0 .. (w - 1) |-> at]
  /\ training = [r \in 0 .. (w - 1) |-> FALSE]
  /\ epoch = [r \in 0 .. (w - 1) |-> -1]
  /\ step = [r \in 0 .. (w - 1) |-> 0]
  /\ eval_step = [r \in 0 .. (w - 1) |-> 0]
  /\ evalArgs = [r \in 0 .. (w - 1) |-> <<0, 0>>]
  /\ ret = [r \in 0 .. (w - 1) |-> "returned"]
  /\ chan = [r \in 0 .. (w - 1) |-> <<>>]
  /\ passes = [r \in 0 .. (w - 1) |-> <<>>]
  /\ trained = [r \in 0 .. (w - 1) |-> 0]
  /\ stepsDone = [r \in 0 .. (w - 1) |-> 0]
  /\ stepEvals = [r \in 0 .. (w - 1) |-> 0]
  /\ epochsDone = [r \in 0 .. (w - 1) |-> 0]
  /\ epochEvals = [r \in 0 .. (w - 1) |-> 0]

\* every rank of a pipeline of w stages is at the call generate(batch, m, s)
GenerateAt(w, batch, m, s, back) ==
  /\ genRet = [r \in 0 .. (w - 1) |-> back]
  /\ max_length = [r \in 0 .. (w - 1) |-> m]
  /\ stop_tokens = [r \in 0 .. (w - 1) |-> s]
  /\ it = [r \in 0 .. (w - 1) |-> 0]
  /\ current_pos = [r \in 0 .. (w - 1) |-> 0]
  /\ input_ids = [r \in 0 .. (w - 1) |-> batch]
  /\ next_tokens = [r \in 0 .. (w - 1) |-> Zeros]
  /\ fwd = [r \in 0 .. (w - 1) |-> 0]
  /\ stopIters = [r \in 0 .. (w - 1) |-> {}]
  /\ held = [r \in 0 .. (w - 1) |-> <<>>]
  /\ argmaxLog = [r \in 0 .. (w - 1) |-> <<>>]
  /\ ids0 = [r \in 0 .. (w - 1) |-> batch]

\* trainer.train() on a single pipeline stage
Init ==
  /\ trainer_args \in ArgValues
  /\ RanksAt(1, "train")
  /\ GenerateAt(1, <<>>, 0, {}, "gen_done")
  /\ NoProcs

Next ==
  \/ \E r \in Ranks : TrainEnter(r)
  \/ \E r \in Ranks : ForeverHead(r)
  \/ \E r \in Ranks : RangeHead(r)
  \/ \E r \in Ranks : StepHead(r)
  \/ \E r \in Ranks : TrainStep(r)
  \/ \E r \in Ranks : StepCadence(r)
  \/ \E r \in Ranks : EpochTailForever(r)
  \/ \E r \in Ranks : EpochTailRange(r)
  \/ \E r \in Ranks : EvalHead(r)
  \/ \E r \in Ranks : GenHead(r)
  \/ \E r \in Ranks : GenExec(r)
  \/ \E r \in Ranks : GenBroadcast(r)
  \/ \E r \in Ranks : GenReturn(r)

Spec == Init /\ [][Next]_vars

\* every step of train() and of the evaluations it calls terminates
FairSpec == Spec /\ WF_vars(Next)

\* generate(batch, max_length, stop_tokens) on every rank of a pipeline
InitGenerate ==
  /\ trainer_args \in {a \in ArgValues : /\ a.epochs = 0
                                       /\ a.eval_per_steps = 0
                                       /\ a.eval_per_epoches = 0
                                       /\ a.eval_max_length = 0}
  /\ \E w \in 1 .. MaxWorld, batch \in Batches,
        m \in (-1) .. MaxLength, s \in StopSets :
       /\ RanksAt(w, "gen_head")
       /\ GenerateAt(w, batch, m, s, "gen_done")
  /\ NoProcs

NextGenerate ==
  \/ \E r \in Ranks : GenHead(r)
  \/ \E r \in Ranks : GenExec(r)
  \/ \E r \in Ranks : GenBroadcast(r)
  \/ \E r \in Ranks : GenReturn(r)

SpecGenerate == InitGenerate /\ [][NextGenerate]_vars

\* every rank keeps running: a forward pass or a broadcast that is enabled
\* completes
FairSpecGenerate == SpecGenerate /\ WF_vars(NextGenerate)

\* the processes of a launch, each about to call main() inside the try:
\* torchrun sets RANK and WORLD_SIZE of each of its processes; a process
\* started by hand has whatever environment it was given
Launches ==
  {[p \in 0 .. (n - 1) |-> [RANK |-> Format(p), WORLD_SIZE |-> Format(n)]] :
     n \in 1 .. MaxProcs}
  \cup {[p \in {0} |-> [RANK |-> rk, WORLD_SIZE |-> ws]] :
          rk \in {None, "0", "1"}, ws \in {None, "2", "two"}}

InitMain ==
  /\ trainer_args \in {a \in ArgValues : /\ a.epochs = 0
                                       /\ a.eval_per_steps = 0
                                       /\ a.eval_per_epoches = 0
                                       /\ a.eval_max_length = 0}
  /\ RanksAt(0, "train")
  /\ GenerateAt(0, <<>>, 0, {}, "gen_done")
  /\ environ \in Launches
  /\ mpc = [p \in DOMAIN environ |-> "main"]
  /\ traced = [p \in DOMAIN environ |-> FALSE]

NextMain ==
  \/ \E p \in Procs : MainReturns(p)
  \/ \E p \in Procs : MainRaises(p)
  \/ \E p \in Procs : Handler(p)
  \/ \E p \in Procs : PrintRank(p)

SpecMain == InitMain /\ [][NextMain]_vars

\* ---- properties ---------------------------------------------------------
\* the epoch indices 0 .. n-1, in order
FirstEpochs(n) == [i \in 1 .. n |-> i - 1]

Returned(r) == pc[r] = "returned"

\* what C1 says of every state: nothing runs with epochs = 0; with epochs = E > 0
\* the passes are a prefix of 0 .. E-1 and at the return they are all of it,
\* each over the whole dataloader; with epochs = -1 train() has not returned
\* and the passes are 0, 1, 2, ... in order
C1_State ==
  \A r \in Ranks :
    LET E == trainer_args.epochs IN
    /\ E = 0 => /\ passes[r] = <<>> /\ trained[r] = 0
                /\ stepEvals[r] = 0 /\ epochEvals[r] = 0
                /\ pc[r] \in {"train", "returned"}
    /\ E > 0 => /\ Len(passes[r]) <= E
                /\ passes[r] = FirstEpochs(Len(passes[r]))
                /\ Returned(r) => /\ passes[r] = FirstEpochs(E)
                                  /\ trained[r] = E * NTrain
    /\ E = -1 => /\ ~Returned(r)
                 /\ passes[r] = FirstEpochs(Len(passes[r]))

\* C1: the number of passes train() makes over the training dataloader is
\* fixed by trainer_args.epochs: with epochs = 0 it returns without a training
\* step or an evaluation; with epochs = E > 0 it makes exactly the passes
\* 0 .. E-1 in order and returns; with epochs = -1 it never returns and every
\* epoch index (below the cap of the model) is eventually trained.
C1_PassesFixedByEpochs ==
  /\ []C1_State
  /\ (trainer_args.epochs >= 0) ~> (\A r \in Ranks : Returned(r))
  /\ \A k \in 0 .. (MaxEpochs - 1) :
       (trainer_args.epochs = -1)
         ~> (\A r \in Ranks : \E i \in DOMAIN passes[r] : passes[r][i] = k)

\* train() returned after MaxEpochs passes, each over the whole dataloader
C1_Witness ==
  \E r \in Ranks : /\ trainer_args.epochs = MaxEpochs
                   /\ Returned(r)
                   /\ Len(passes[r]) = MaxEpochs
                   /\ trained[r] = MaxEpochs * NTrain

\* the cadence as the claims state it: every time for -1, every n-th for n > 0
Due(n, k) == n = -1 \/ (n > 0 /\ k % n = 0)

\* C3: step-level evaluation follows a modulo cadence on eval_per_steps:
\* within a pass, eval(epoch, s) is called right after training step s exactly
\* when eval_per_steps = -1, or eval_per_steps = N > 0 and s mod N = 0; with
\* eval_per_steps = 0 no evaluation runs after a training step.
C3_StepCadence ==
  /\ [](\A r \in Ranks :
          /\ stepEvals[r] =
               Cardinality({s \in 1 .. stepsDone[r] :
                              Due(trainer_args.eval_per_steps, s)})
          /\ trainer_args.eval_per_steps = 0 => stepEvals[r] = 0)
  /\ [][\A r \in Ranks :
          pc[r] = "step_cadence" =>
            IF Due(trainer_args.eval_per_steps, step[r])
              THEN /\ pc'[r] = "eval_head"
                   /\ evalArgs'[r] = <<epoch[r], step[r]>>
              ELSE pc'[r] = "step_head"]_vars

\* with eval_per_steps = 2 the evaluation of step 2 is running and it is the
\* only one of the pass
C3_Witness ==
  \E r \in Ranks : /\ trainer_args.eval_per_steps = 2
                   /\ pc[r] = "eval_head"
                   /\ ret[r] = "step_head"
                   /\ evalArgs[r][2] = 2
                   /\ stepEvals[r] = 1

\* C4: epoch-level evaluation follows a modulo cadence on eval_per_epoches:
\* after the k-th completed epoch (k from 1) an evaluation runs exactly when
\* eval_per_epoches = -1, or eval_per_epoches = N > 0 and k mod N = 0; with
\* eval_per_epoches = 0 none runs; the counted loop and the endless loop agree,
\* so after k epochs both have run the same number of epoch-level evaluations.
C4_EpochCadence ==
  /\ [](\A r \in Ranks :
          /\ epochEvals[r] =
               Cardinality({k \in 1 .. epochsDone[r] :
                              Due(trainer_args.eval_per_epoches, k)})
          /\ trainer_args.eval_per_epoches = 0 => epochEvals[r] = 0)
  /\ [][\A r \in Ranks :
          pc[r] = "epoch_tail" =>
            IF Due(trainer_args.eval_per_epoches, epochsDone[r] + 1)
              THEN pc'[r] = "eval_head" /\ evalArgs'[r][2] = 0
              ELSE pc'[r] \in {"forever_head", "range_head"}]_vars

\* the counted loop with eval_per_epoches = 2 runs the evaluation of its 2nd
\* epoch, having skipped the one of the 1st
C4_Witness ==
  \E r \in Ranks : /\ trainer_args.epochs > 0
                   /\ trainer_args.eval_per_epoches = 2
                   /\ pc[r] = "eval_head"
                   /\ ret[r] = "range_head"
                   /\ epochsDone[r] = 2
                   /\ epochEvals[r] = 1

\* C8: every training step (zero_grad, execute_schedule with
\* forward_only=False, step) runs while the engine is in train mode.
C8_TrainStepInTrainMode ==
  \A r \in Ranks : pc[r] = "train_step" => training[r]

\* C2: with eval_max_length = -1, generate() called by eval() does not return
\* before some predicted token is a member of eval_stop_tokens.
C2_RunsUntilStopToken ==
  \A r \in Ranks :
    (/\ trainer_args.eval_max_length = -1
     /\ genRet[r] = "eval_head"
     /\ pc[r] = "gen_return") => stopIters[r] # {}

\* generate() of rank r has left its loop
GenOver(r) == pc[r] \in {"gen_return", "gen_done"}

\* what C5 says of a finished call, with the iterations that make it shorter
\* given as a set
C5_Shape(r, shortening) ==
  /\ fwd[r] <= max_length[r]
  /\ fwd[r] < max_length[r] <=> shortening # {}
  /\ stopIters[r] \subseteq {fwd[r]}

\* C5 as stated: for max_length = M >= 0 generate() terminates after at most M
\* forward passes, and it executes fewer than M exactly when in some iteration
\* a token of the broadcast next_tokens is in stop_tokens; that iteration is
\* the last one executed.
C5_Original ==
  \A r \in Ranks :
    (GenOver(r) /\ max_length[r] >= 0) => C5_Shape(r, stopIters[r])

\* C5, amended: for max_length = M >= 0 generate() terminates after at most M
\* forward passes, and it executes fewer than M exactly when a token of the
\* broadcast next_tokens is in stop_tokens in some iteration before the M-th;
\* an iteration with a stop token is the last one executed.
C5_FixedIterationLoop ==
  /\ [](\A r \in Ranks :
          max_length[r] >= 0 =>
            /\ fwd[r] <= max_length[r]
            /\ GenOver(r) =>
                 C5_Shape(r, {i \in stopIters[r] : i < max_length[r]}))
  /\ <>(\A r \in Ranks : pc[r] = "gen_done")

\* a call that a stop token in the second row alone ended before max_length
C5_Witness ==
  \E r \in Ranks : /\ pc[r] = "gen_return"
                   /\ fwd[r] < max_length[r]
                   /\ stopIters[r] = {fwd[r]}
                   /\ next_tokens[r][1] \notin stop_tokens[r]
                   /\ next_tokens[r][2] \in stop_tokens[r]

\* C7: in generate() the predictions are broadcast so that all pipeline ranks
\* stay in lock-step: after the broadcast of an iteration every rank holds the
\* argmax computed on the last stage, ranks that completed the same iterations
\* hold the same input_ids, and no rank starts an iteration (its
\* execute_schedule and broadcast) that a rank which left the loop has skipped.
C7_LockStep ==
  \A r \in Ranks :
    /\ Len(held[r]) <= Len(argmaxLog[world - 1])
    /\ held[r] = SubSeq(argmaxLog[world - 1], 1, Len(held[r]))
    /\ \A q \in Ranks :
         /\ Len(held[q]) = Len(held[r]) => input_ids[q] = input_ids[r]
         /\ GenOver(r) => it[q] <= it[r]
         /\ (GenOver(r) /\ GenOver(q)) => fwd[q] = fwd[r] /\ stopIters[q] = stopIters[r]

\* on a pipeline of several stages a stage other than the last left the loop on
\* a stop token that it received in the second iteration
C7_Witness ==
  \E r \in Ranks : /\ world > 1
                   /\ r # world - 1
                   /\ pc[r] = "gen_return"
                   /\ stopIters[r] = {2}
                   /\ held[r][1] # Zeros

Max(a, b) == IF a >= b THEN a ELSE b

\* C9: generate() never changes an input_ids entry that is nonzero: its i-th
\* iteration writes the predicted token only into column i and only in rows
\* whose entry there is 0; column 0 is never written, no column is removed, the
\* width grows only by all-zero columns, and the width is
\* max(initial width, iterations executed + 1).
C9_Frame ==
  /\ [][\A r \in Ranks : \A b \in Rows :
          LET old == input_ids[r][b]
              new == input_ids'[r][b]
              i   == current_pos[r]
          IN IF pc[r] = "gen_bcast" /\ pc'[r] # "gen_bcast"
               THEN /\ Len(new) >= Len(old)
                    /\ Len(new) > Len(old) => Len(new) = i + 1
                    /\ \A c \in 1 .. Len(new) :
                         LET was == IF c <= Len(old) THEN old[c] ELSE 0 IN
                         new[c] = IF c = i + 1 /\ was = 0
                                    THEN next_tokens'[r][b] ELSE was
                    /\ i >= 1
               ELSE new = old]_vars
  /\ [](\A r \in Ranks :
          pc[r] \in {"gen_head", "gen_exec", "gen_bcast", "gen_return"} =>
            /\ Width(input_ids[r]) = Max(Width(ids0[r]), Len(held[r]) + 1)
            /\ \A b \in Rows : \A c \in 1 .. Len(ids0[r][b]) :
                 (c = 1 \/ ids0[r][b][c] # 0) =>
                   input_ids[r][b][c] = ids0[r][b][c])

\* an iteration found column 1 occupied in the first row and empty in the
\* second: the first row kept its token, the second took the prediction
C9_Witness ==
  \E r \in Ranks : /\ Len(held[r]) = 1
                   /\ Width(ids0[r]) = 2
                   /\ ids0[r][1][2] = 1 /\ ids0[r][2][2] = 0
                   /\ held[r][1] = [b \in Rows |-> 2]
                   /\ input_ids[r][1][2] = 1 /\ input_ids[r][2][2] = 2

\* RANK of process p is "0" or the decimal of WORLD_SIZE - 1
FirstOrLast(p) ==
  \/ environ[p].RANK = "0"
  \/ \E n \in 1 .. MaxProcs + 1 : /\ environ[p].WORLD_SIZE = ToString(n)
                                  /\ environ[p].RANK = ToString(n - 1)

\* WORLD_SIZE of process p is set to a decimal
WorldSizeIsInt(p) ==
  \E n \in 0 .. MaxProcs + 1 : environ[p].WORLD_SIZE = ToString(n)

\* C6 as stated: when main() raises, the stack trace is printed by the process
\* whose RANK is "0" and by no process of another rank, and the exception does
\* not propagate out of the handler.
C6_Original ==
  \A p \in Procs :
    /\ traced[p] => environ[p].RANK = "0"
    /\ mpc[p] = "print_rank" => (traced[p] <=> environ[p].RANK = "0")
    /\ mpc[p] # "exit_exc"

\* C6, amended: when main() raises on a process, that process prints the stack
\* trace exactly when its RANK is "0" or WORLD_SIZE - 1; no exception leaves
\* the handler unless RANK is not "0" and WORLD_SIZE is unset or no integer,
\* where int() raises inside the handler and nothing is printed.
C6_TraceOnFirstAndLastRank ==
  \A p \in Procs :
    /\ traced[p] => FirstOrLast(p)
    /\ mpc[p] = "print_rank" =>
         /\ traced[p] <=> FirstOrLast(p)
         /\ environ[p].RANK = "0" \/ WorldSizeIsInt(p)
    /\ mpc[p] = "exit_exc" => /\ environ[p].RANK # "0"
                              /\ ~WorldSizeIsInt(p)
                              /\ ~traced[p]

\* in a launch of several processes the last one printed the stack trace
C6_Witness ==
  \E p \in Procs : /\ Cardinality(Procs) > 1
                   /\ traced[p]
                   /\ environ[p].RANK # "0"
                   /\ mpc[p] = "print_rank"
====
